---- MODULE Spec2Model ----
(***************************************************************************)
(* A model of comic2pdf (src/comic2pdf.py): the natural sort key, the      *)
(* assembly of one PDF from a folder of page images, and the archive loop  *)
(* of generate_manga over a small file system.                             *)
(*                                                                         *)
(* Strings are sequences of one-character strings, so that splitting,      *)
(* joining and comparing them is computed the way the code computes it.    *)
(* The character "^2" stands for U+00B2 (superscript two): a character for *)
(* which str.isdigit() is true and which the regex \d does not match.      *)
(***************************************************************************)
EXTENDS Integers, Sequences, FiniteSets, TLC

VARIABLES
    arg,                    \* the arguments of the pure function under check
    ret,                    \* its result ("none" before the call)
    manga,                  \* os.listdir(manga_dir): the archives, in listing order
    force_create,           \* generate_manga's force_create
    files,                  \* the output tree: path -> document content
    dirs,                   \* the output folders that exist
    temp,                   \* the scratch directories that exist
    pc,                     \* where generate_manga stands
    run,                    \* 1: the first run, 2: the run repeated on the same input
    idx,                    \* index in manga of the archive being processed
    chapters,               \* the sorted chapter folders still to visit
    chapter_count,          \* generate_manga's chapter_count
    processed_manga_count,  \* generate_manga's processed_manga_count
    reports,                \* the "ZIP processing completed" log records of this run
    written,                \* the paths saved while processing the current archive
    calls,                  \* the entries handed to create_pdf_from_images in this run
    before,                 \* the output tree as it was when this run began
    exc                     \* the exception that is propagating, or "none"

purevars == <<arg, ret>>
mainvars == <<manga, force_create, files, dirs, temp, pc, run, idx, chapters,
              chapter_count, processed_manga_count, reports, written, calls,
              before, exc>>
vars == <<arg, ret, manga, force_create, files, dirs, temp, pc, run, idx, chapters,
          chapter_count, processed_manga_count, reports, written, calls,
          before, exc>>

(***************************************************************************)
(* Characters and strings                                                  *)
(***************************************************************************)

\* The code point of each character the model uses (str comparison is by code point).
Ord ==
    ("-" :> 45) @@ ("." :> 46) @@ ("/" :> 47) @@ ("0" :> 48) @@ ("1" :> 49) @@
    ("2" :> 50) @@ ("3" :> 51) @@ ("4" :> 52) @@ ("5" :> 53) @@ ("6" :> 54) @@
    ("7" :> 55) @@ ("8" :> 56) @@ ("9" :> 57) @@ ("A" :> 65) @@ ("_" :> 95) @@
    ("a" :> 97) @@ ("b" :> 98) @@ ("c" :> 99) @@ ("d" :> 100) @@ ("e" :> 101) @@ ("f" :> 102) @@
    ("g" :> 103) @@ ("i" :> 105) @@ ("j" :> 106) @@ ("m" :> 109) @@ ("o" :> 111) @@
    ("p" :> 112) @@ ("r" :> 114) @@ ("s" :> 115) @@ ("t" :> 116) @@ ("u" :> 117) @@
    ("x" :> 120) @@ ("z" :> 122) @@ ("^2" :> 178)

\* The regex class \d on the model's characters.
IsDecimal(c) == c \in {"0", "1", "2", "3", "4", "5", "6", "7", "8", "9"}

\* str.isdigit() on one character: the decimal digits and the other digit characters.
IsDigitChar(c) == IsDecimal(c) \/ c = "^2"

DigitVal(c) == Ord[c] - Ord["0"]

\* str.lower() on one character.
lowerchar(c) == IF c = "A" THEN "a" ELSE c

\* str.lower()
lower(s) == [i \in DOMAIN s |-> lowerchar(s[i])]

\* str.isdigit(): the string is not empty and each character is a digit character.
isdigit(s) == s # <<>> /\ \A i \in DOMAIN s : IsDigitChar(s[i])

\* Whether int(s) accepts the string: only decimal digits (it raises ValueError otherwise).
IntAccepts(s) == s # <<>> /\ \A i \in DOMAIN s : IsDecimal(s[i])

RECURSIVE int(_)
\* int(s) for a string of decimal digits.
int(s) ==
    IF s = <<>> THEN 0
    ELSE int(SubSeq(s, 1, Len(s) - 1)) * 10 + DigitVal(s[Len(s)])

RECURSIVE StrLess(_, _)
\* str < str: lexicographic by code point.
StrLess(s, t) ==
    IF t = <<>> THEN FALSE
    ELSE IF s = <<>> THEN TRUE
    ELSE IF s[1] # t[1] THEN Ord[s[1]] < Ord[t[1]]
    ELSE StrLess(Tail(s), Tail(t))

\* str.endswith
endswith(s, suffix) ==
    /\ Len(s) >= Len(suffix)
    /\ SubSeq(s, Len(s) - Len(suffix) + 1, Len(s)) = suffix

(***************************************************************************)
(* natural_sort_key                                                        *)
(***************************************************************************)

RECURSIVE RunLen(_, _)
\* The length of the longest prefix of s whose characters all have IsDecimal = dig.
RunLen(s, dig) ==
    IF s = <<>> \/ IsDecimal(Head(s)) # dig THEN 0
    ELSE 1 + RunLen(Tail(s), dig)

RECURSIVE re_split(_)
\* re.split(r"(\d+)", s): text, digits, text, ..., text (a text may be empty).
re_split(s) ==
    LET n == RunLen(s, FALSE)
        text == SubSeq(s, 1, n)
        rest == SubSeq(s, n + 1, Len(s))
    IN  IF rest = <<>> THEN <<text>>
        ELSE LET m == RunLen(rest, TRUE)
             IN  <<text, SubSeq(rest, 1, m)>> \o re_split(SubSeq(rest, m + 1, Len(rest)))

\* One element of a key: an int or a str.
IntElem(n) == [t |-> "int", n |-> n, s |-> <<>>]
StrElem(s) == [t |-> "str", n |-> 0, s |-> s]

\* int(text) if text.isdigit() else text.lower(), for every part of the split;
\* raised is TRUE when an int() of the comprehension raises ValueError.
natural_sort_key(key) ==
    LET parts == re_split(key)
    IN  IF \E i \in DOMAIN parts : isdigit(parts[i]) /\ ~IntAccepts(parts[i])
        THEN [raised |-> TRUE, key |-> <<>>]
        ELSE [raised |-> FALSE,
              key |-> [i \in DOMAIN parts |->
                          IF isdigit(parts[i]) THEN IntElem(int(parts[i]))
                          ELSE StrElem(lower(parts[i]))]]

\* The first index at which two lists differ (0: one is a prefix of the other).
FirstDiff(k1, k2) ==
    LET m == IF Len(k1) < Len(k2) THEN Len(k1) ELSE Len(k2)
        D == {i \in 1..m : k1[i] # k2[i]}
    IN  IF D = {} THEN 0 ELSE CHOOSE i \in D : \A j \in D : i <= j

\* list < list does not raise TypeError: the first differing elements have one type.
Comparable(k1, k2) ==
    LET i == FirstDiff(k1, k2)
    IN  i = 0 \/ k1[i].t = k2[i].t

\* list < list, as Python compares two keys.
KeyLess(k1, k2) ==
    LET i == FirstDiff(k1, k2)
    IN  IF i = 0 THEN Len(k1) < Len(k2)
        ELSE IF k1[i].t = "int" /\ k2[i].t = "int" THEN k1[i].n < k2[i].n
        ELSE IF k1[i].t = "str" /\ k2[i].t = "str" THEN StrLess(k1[i].s, k2[i].s)
        ELSE FALSE

RECURSIVE Insert(_, _)
\* x = [k, v] put into the list sorted by k after every element that is not greater
\* (Python's sort is stable).
Insert(x, list) ==
    IF list = <<>> THEN <<x>>
    ELSE IF KeyLess(x.k, Head(list).k) THEN <<x>> \o list
    ELSE <<Head(list)>> \o Insert(x, Tail(list))

RECURSIVE SortedList(_)
SortedList(list) ==
    IF list = <<>> THEN <<>>
    ELSE Insert(list[Len(list)], SortedList(SubSeq(list, 1, Len(list) - 1)))

\* sorted(list, key=key) on the list of [k |-> key(x), v |-> x]: raised when a key
\* raised, the stable sort of the elements otherwise.
sorted(keyed) ==
    IF \E i \in DOMAIN keyed : keyed[i].k.raised
    THEN [raised |-> TRUE, list |-> <<>>]
    ELSE LET s == SortedList([i \in DOMAIN keyed |-> [k |-> keyed[i].k.key,
                                                       v |-> keyed[i].v]])
         IN  [raised |-> FALSE, list |-> [i \in DOMAIN s |-> s[i].v]]

(***************************************************************************)
(* Paths and names                                                         *)
(***************************************************************************)

\* The index of the last c in s, 0 when there is none (str.rfind, counted from 1).
rfind(s, c) ==
    LET P == {i \in DOMAIN s : s[i] = c}
    IN  IF P = {} THEN 0 ELSE CHOOSE i \in P : \A j \in P : j <= i

\* os.path.join(a, b)
os_path_join(a, b) ==
    IF b # <<>> /\ b[1] = "/" THEN b
    ELSE IF a = <<>> \/ a[Len(a)] = "/" THEN a \o b
    ELSE a \o <<"/">> \o b

\* os.path.splitext(p)[0]: the extension starts at the last dot of the last
\* component, unless only dots precede it there.
splitext_root(p) ==
    LET sepIndex == rfind(p, "/")
        dotIndex == rfind(p, ".")
    IN  IF /\ dotIndex > sepIndex
           /\ \E i \in (sepIndex + 1)..(dotIndex - 1) : p[i] # "."
        THEN SubSeq(p, 1, dotIndex - 1)
        ELSE p

RECURSIVE split(_, _)
\* str.split(sep) for a one-character separator.
split(s, sep) ==
    LET P == {i \in DOMAIN s : s[i] = sep}
    IN  IF P = {} THEN <<s>>
        ELSE LET i == CHOOSE i \in P : \A j \in P : i <= j
             IN  <<SubSeq(s, 1, i - 1)>> \o split(SubSeq(s, i + 1, Len(s)), sep)

RECURSIVE join(_, _)
\* sep.join(list)
join(sep, list) ==
    IF list = <<>> THEN <<>>
    ELSE IF Len(list) = 1 THEN list[1]
    ELSE list[1] \o sep \o join(sep, Tail(list))

S_zip == <<".", "z", "i", "p">>
S_pdf == <<".", "p", "d", "f">>

\* chapter_name = os.path.splitext(zip_file)[0]
chapter_name(zip_file) == splitext_root(zip_file)

\* series_name with [:-1] for [:-2]: only the last token is dropped.
series_name_drop_one(zip_file) ==
    LET tokens == split(chapter_name(zip_file), "_")
    IN  join(<<"-">>, SubSeq(tokens, 1, Len(tokens) - 1))

\* series_name = "-".join(chapter_name.split("_")[:-2])
series_name(zip_file) ==
    LET tokens == split(chapter_name(zip_file), "_")
    IN  join(<<"-">>, SubSeq(tokens, 1, Len(tokens) - 2))

\* pdf_folder = f"{output_dir}{'/' if not output_dir.endswith('/') else ''}{series_name}"
pdf_folder(output_dir, series) ==
    output_dir \o (IF ~endswith(output_dir, <<"/">>) THEN <<"/">> ELSE <<>>) \o series

\* manga_pdf_file = f"{series_name}_{chapter_folder}.pdf"
manga_pdf_file(series, chapter_folder) == series \o <<"_">> \o chapter_folder \o S_pdf

\* abs_pdf_file = os.path.join(pdf_folder, manga_pdf_file)
abs_pdf_file(output_dir, zip_file, chapter_folder) ==
    LET series == series_name(zip_file)
    IN  os_path_join(pdf_folder(output_dir, series), manga_pdf_file(series, chapter_folder))

\* os.path.basename
basename(q) == SubSeq(q, rfind(q, "/") + 1, Len(q))

\* os.listdir(folder) in the output tree: the names of the documents fs holds and of
\* the folders ds holds that lie directly in folder.
listdir(fs, ds, folder) ==
    {basename(q) : q \in {q \in DOMAIN fs \cup ds :
                            /\ basename(q) # <<>>
                            /\ os_path_join(folder, basename(q)) = q}}

(***************************************************************************)
(* create_pdf_from_images                                                  *)
(***************************************************************************)

\* A page of a document: the image it was decoded from, its mode, and whether it
\* went through compress_image.
Page(src, mode, compressed) == [src |-> src, mode |-> mode, compressed |-> compressed]

\* sorted(...) without key=natural_sort_key: the paths compare as plain strings.
PlainPathKey(image_folder, f) ==
    [raised |-> FALSE, key |-> <<StrElem(os_path_join(image_folder, f.name))>>]

\* The key the code sorts a page with: natural_sort_key of the joined path.
PathKey(image_folder, f) == natural_sort_key(os_path_join(image_folder, f.name))

\* images = sorted([os.path.join(image_folder, f) for f in os.listdir(image_folder)],
\*                 key=natural_sort_key)
images(image_folder, listing) ==
    sorted([i \in DOMAIN listing |->
               [k |-> PathKey(image_folder, listing[i]), v |-> listing[i]]])

\* The loop with a try/except around Image.open that skips an entry that is no image.
img_list_skip_bad(imgs, compress) ==
    LET good == SelectSeq(imgs, LAMBDA f : f.kind # "bad")
    IN  [raised |-> FALSE,
         list |-> [i \in DOMAIN good |->
                      Page(good[i].name,
                           IF good[i].kind = "P" THEN "RGB" ELSE good[i].kind,
                           compress)]]

\* The loop over images: Image.open raises on an entry that is no image; a palette
\* image is converted to RGB; with compress the image is re-encoded as JPEG.
\* raised is TRUE when an Image.open raised.
img_list(imgs, compress) ==
    IF \E i \in DOMAIN imgs : imgs[i].kind = "bad"
    THEN [raised |-> TRUE, list |-> <<>>]
    ELSE [raised |-> FALSE,
          list |-> [i \in DOMAIN imgs |->
                       Page(imgs[i].name,
                            IF imgs[i].kind = "P" THEN "RGB" ELSE imgs[i].kind,
                            compress)]]

\* save without the "if img_list:" guard: img_list[0] raises IndexError on an empty list.
save_unguarded(fs, pdf_file, list) ==
    IF list # <<>>
    THEN [raised |-> "none", saved |-> TRUE,
          files |-> [q \in DOMAIN fs \cup {pdf_file} |->
                        IF q = pdf_file THEN list ELSE fs[q]]]
    ELSE [raised |-> "IndexError", saved |-> FALSE, files |-> fs]

\* if img_list: img_list[0].save(pdf_file, save_all=True, append_images=img_list[1:])
save(fs, pdf_file, list) ==
    IF list # <<>>
    THEN [raised |-> "none", saved |-> TRUE,
          files |-> [q \in DOMAIN fs \cup {pdf_file} |->
                        IF q = pdf_file THEN list ELSE fs[q]]]
    ELSE [raised |-> "none", saved |-> FALSE, files |-> fs]

\* create_pdf_from_images(pdf_file, image_folder, image_quality, compress) on the
\* output tree fs, where entry is what image_folder names: the exception it raises
\* ("none" when it returns), whether it saved a document, and the output tree it leaves.
create_pdf_from_images(fs, pdf_file, image_folder, entry, compress) ==
    IF entry.kind # "dir"
    THEN [raised |-> "NotADirectoryError", saved |-> FALSE, files |-> fs]
    ELSE LET imgs == images(image_folder, entry.pages)
         IN  IF imgs.raised
             THEN [raised |-> "ValueError", saved |-> FALSE, files |-> fs]
             ELSE LET decoded == img_list(imgs.list, compress)
                  IN  IF decoded.raised
                      THEN [raised |-> "UnidentifiedImageError", saved |-> FALSE, files |-> fs]
                      ELSE save(fs, pdf_file, decoded.list)

(***************************************************************************)
(* natural_sort_key as a pure function: three file names are drawn and     *)
(* their keys computed.                                                    *)
(***************************************************************************)

MaxKeyLen == 2

\* Every string of at most n characters of chars.
StringsUpTo(chars, n) == UNION {[1..k -> chars] : k \in 0..n}

KeyChars == {"a", "A", "1", "2", "^2"}

KeyNames ==
    StringsUpTo(KeyChars, MaxKeyLen) \cup
    {<<"p", "2">>, <<"p", "1", "0">>,
     <<"p", "a", "g", "e", "2", ".", "j", "p", "g">>,
     <<"p", "a", "g", "e", "1", "0", ".", "j", "p", "g">>}

\* The state generate_manga's variables have while only a pure function is run.
Idle ==
    /\ manga = <<>>
    /\ force_create = FALSE
    /\ files = <<>>
    /\ dirs = {}
    /\ temp = {}
    /\ pc = "idle"
    /\ run = 0
    /\ idx = 0
    /\ chapters = <<>>
    /\ chapter_count = 0
    /\ processed_manga_count = 0
    /\ reports = <<>>
    /\ written = {}
    /\ calls = <<>>
    /\ before = <<>>
    /\ exc = "none"

InitKey ==
    /\ arg \in [a : KeyNames, b : KeyNames, c : KeyNames]
    /\ ret = [done |-> FALSE]
    /\ Idle

\* The three calls natural_sort_key(a), natural_sort_key(b), natural_sort_key(c).
CallKey ==
    /\ ~ret.done
    /\ ret' = [done |-> TRUE,
               a |-> natural_sort_key(arg.a),
               b |-> natural_sort_key(arg.b),
               c |-> natural_sort_key(arg.c)]
    /\ UNCHANGED <<arg, mainvars>>

NextKey == CallKey

SpecKey == InitKey /\ [][NextKey]_vars

\* Neither key sorts before the other.
Tied(k1, k2) == ~KeyLess(k1, k2) /\ ~KeyLess(k2, k1)

\* s = x + d for a text x without decimal digits and a non-empty run d of decimal digits.
TextThenDigits(s) ==
    LET n == RunLen(s, FALSE)
    IN  n < Len(s) /\ IntAccepts(SubSeq(s, n + 1, Len(s)))

TextOf(s) == SubSeq(s, 1, RunLen(s, FALSE))
DigitsOf(s) == SubSeq(s, RunLen(s, FALSE) + 1, Len(s))

\* The ordering properties of three keys that were all returned.
KeyOrderLaws ==
    LET ka == ret.a.key
        kb == ret.b.key
        kc == ret.c.key
    IN  /\ Comparable(ka, kb) /\ Comparable(kb, kc) /\ Comparable(ka, kc)
        /\ ~KeyLess(ka, ka)
        /\ (KeyLess(ka, kb) /\ KeyLess(kb, kc)) => KeyLess(ka, kc)
        /\ (Tied(ka, kb) /\ Tied(kb, kc)) => Tied(ka, kc)
        /\ (/\ TextThenDigits(arg.a) /\ TextThenDigits(arg.b)
            /\ TextOf(arg.a) = TextOf(arg.b))
           => (KeyLess(ka, kb) <=> int(DigitsOf(arg.a)) < int(DigitsOf(arg.b)))
        /\ lower(arg.a) = lower(arg.b) => Tied(ka, kb)

\* C6: natural_sort_key returns a key for every file name without raising, and the
\* keys are pairwise comparable and form a strict weak ordering (irreflexive,
\* transitive, ties transitive) in which digit runs compare by integer value
\* whatever their length and text compares case-insensitively.
C6_SortKeyTotalStrictWeakOrder ==
    ret.done =>
        /\ ~ret.a.raised /\ ~ret.b.raised /\ ~ret.c.raised
        /\ KeyOrderLaws

\* The ordering laws on the names for which natural_sort_key returns.
SortKeyOrderWhereDefined ==
    (ret.done /\ ~ret.a.raised /\ ~ret.b.raised /\ ~ret.c.raised) => KeyOrderLaws

\* p2 and p10 were compared, and p2 came first.
SortKeyP2BeforeP10 ==
    /\ ret.done
    /\ arg.a = <<"p", "2">> /\ arg.b = <<"p", "1", "0">>
    /\ ~ret.a.raised /\ ~ret.b.raised
    /\ KeyLess(ret.a.key, ret.b.key)

(***************************************************************************)
(* create_pdf_from_images as a function of one folder                      *)
(***************************************************************************)

MaxPages == 3

PageNames == {<<"2">>, <<"1", "0">>, <<"a">>, <<"A">>, <<"^2">>, <<"1", "^2">>}
PageKinds == {"RGB", "P", "bad"}

\* The listings of a folder of at most n files: distinct names, in any order.
Listings(n) ==
    UNION {{l \in [1..k -> [name : PageNames, kind : PageKinds]] :
               \A i, j \in 1..k : l[i].name = l[j].name => i = j} : k \in 0..n}

S_jpg == <<".", "j", "p", "g">>

\* 1.jpg, 2.jpg, ..., 11.jpg as a directory lists them when it sorts names as text.
ElevenPages ==
    [i \in 1..11 |->
        [name |-> <<<<"1">>, <<"1", "0">>, <<"1", "1">>, <<"2">>, <<"3">>, <<"4">>,
                    <<"5">>, <<"6">>, <<"7">>, <<"8">>, <<"9">>>>[i] \o S_jpg,
         kind |-> "RGB"]]

Dir(name, pages) == [name |-> name, kind |-> "dir", pages |-> pages]
File(name) == [name |-> name, kind |-> "file", pages |-> <<>>]

PdfEntries ==
    {Dir(<<"c", "2">>, l) : l \in Listings(MaxPages) \cup {ElevenPages}}
        \cup {File(<<"c", "2">>)}

S_tmp == <<"/", "t", "m", "p", "/", "t", "m", "p", "0", "a", "1">>
S_out == <<"o", "u", "t">>
S_old == <<"o", "l", "d">>

\* The document the output tree holds before the run: what an earlier run left.
Stale == <<Page(S_old, "RGB", FALSE)>>

PdfFile == <<"o", "u", "t", "/", "s", "/", "s", "_", "c", "2", ".", "p", "d", "f">>

InitPdf ==
    /\ arg \in [entry : PdfEntries,
                compress : BOOLEAN,
                fs : {<<>>, [q \in {PdfFile} |-> Stale]}]
    /\ ret = [done |-> FALSE]
    /\ Idle

\* The call create_pdf_from_images(PdfFile, <scratch>/<entry>, compress=compress).
CallPdf ==
    /\ ~ret.done
    /\ LET r == create_pdf_from_images(arg.fs, PdfFile,
                                       os_path_join(S_tmp, arg.entry.name),
                                       arg.entry, arg.compress)
       IN  ret' = [done |-> TRUE, raised |-> r.raised, files |-> r.files]
    /\ UNCHANGED <<arg, mainvars>>

NextPdf == CallPdf

SpecPdf == InitPdf /\ [][NextPdf]_vars

\* The file names of a listing, sorted by natural_sort_key of the bare name.
SortedBareNames(listing) ==
    sorted([i \in DOMAIN listing |->
               [k |-> natural_sort_key(listing[i].name), v |-> listing[i].name]])

AllDecode(listing) == \A i \in DOMAIN listing : listing[i].kind # "bad"

\* The sources of a document's pages, first page first.
Sources(doc) == [i \in DOMAIN doc |-> doc[i].src]

\* Whether list holds each element of the set of names of listing exactly once.
EachOnce(list, listing) ==
    /\ Len(list) = Len(listing)
    /\ \A i \in DOMAIN listing : \E j \in DOMAIN list : list[j] = listing[i].name

\* C4: for a folder whose entries all decode, the pages of the document that
\* create_pdf_from_images writes are the folder's file names in the order of
\* natural_sort_key of the bare name, each once (the code sorts the joined paths).
\* Where natural_sort_key raises on a bare name there is no such order: the call
\* then either raises too and writes nothing, or writes every page once.
C4_PageOrder ==
    (ret.done /\ arg.entry.kind = "dir" /\ arg.entry.pages # <<>>
        /\ AllDecode(arg.entry.pages))
    => LET want == SortedBareNames(arg.entry.pages)
       IN  IF want.raised
           THEN \/ ret.raised = "ValueError" /\ ret.files = arg.fs
                \/ /\ ret.raised = "none"
                   /\ EachOnce(Sources(ret.files[PdfFile]), arg.entry.pages)
           ELSE /\ ret.raised = "none"
                /\ PdfFile \in DOMAIN ret.files
                /\ Sources(ret.files[PdfFile]) = want.list

\* 1.jpg ... 11.jpg, listed as text sorts them, came out in numeric order.
C4_ElevenPagesInOrder ==
    /\ ret.done
    /\ arg.entry.kind = "dir" /\ arg.entry.pages = ElevenPages
    /\ ret.raised = "none"
    /\ Sources(ret.files[PdfFile]) =
          [i \in 1..11 |->
              <<<<"1">>, <<"2">>, <<"3">>, <<"4">>, <<"5">>, <<"6">>, <<"7">>, <<"8">>,
                <<"9">>, <<"1", "0">>, <<"1", "1">>>>[i] \o S_jpg]

NoneDecodes(listing) == \A i \in DOMAIN listing : listing[i].kind = "bad"

\* C5 as stated: on a folder with no decodable image (no entries, or only entries
\* that are no images) create_pdf_from_images writes no file and raises no error.
C5_EmptyOrUnreadableIsNoOp ==
    (ret.done /\ arg.entry.kind = "dir" /\ NoneDecodes(arg.entry.pages))
    => ret.raised = "none" /\ ret.files = arg.fs

\* C5 amended: on a folder with no entries create_pdf_from_images writes no file and
\* raises no error; on a folder whose entries are all unreadable it writes no file
\* either, and raises (the decode error, or the ValueError of natural_sort_key).
C5_EmptyIsNoOpUnreadableRaises ==
    (ret.done /\ arg.entry.kind = "dir" /\ NoneDecodes(arg.entry.pages))
    => /\ ret.files = arg.fs
       /\ arg.entry.pages = <<>> => ret.raised = "none"
       /\ arg.entry.pages # <<>> => ret.raised \in {"UnidentifiedImageError", "ValueError"}

\* An empty folder was assembled over an existing document, which was left as it was.
C5_EmptyFolderAssembled ==
    /\ ret.done
    /\ arg.entry.kind = "dir" /\ arg.entry.pages = <<>>
    /\ arg.fs # <<>>
    /\ ret.raised = "none" /\ ret.files = arg.fs

(***************************************************************************)
(* The series name and the output path as a function of the names          *)
(***************************************************************************)

MaxStemLen == 5

StemChars == {"a", "_", ".", "-"}

S_foobar ==
    <<"f", "o", "o", "-", "b", "a", "r", "_", "c", "0", "0", "1", "_", "c", "0", "1", "0">>
S_c003 == <<"c", "0", "0", "3">>

\* The archive names <name>.zip.
Stems == StringsUpTo(StemChars, MaxStemLen) \cup {S_foobar}

InitPath ==
    /\ arg \in [stem : Stems,
                chapter_folder : {S_c003, <<"c">>},
                output_dir : {S_out, S_out \o <<"/">>, <<"/">> \o S_out}]
    /\ ret = [done |-> FALSE]
    /\ Idle

\* What generate_manga derives for the archive <stem>.zip and one chapter folder.
CallPath ==
    /\ ~ret.done
    /\ ret' = [done |-> TRUE,
               series_name |-> series_name(arg.stem \o S_zip),
               abs_pdf_file |-> abs_pdf_file(arg.output_dir, arg.stem \o S_zip,
                                             arg.chapter_folder)]
    /\ UNCHANGED <<arg, mainvars>>

NextPath == CallPath

SpecPath == InitPath /\ [][NextPath]_vars

\* The components of a path: what lies between its slashes, empty parts dropped.
Components(q) == SelectSeq(split(q, "/"), LAMBDA part : part # <<>>)

\* The positions of the underscores of a name.
Underscores(name) == {i \in DOMAIN name : name[i] = "_"}

\* The name up to its second-last underscore, each underscore before it turned into
\* a hyphen; empty when the name has fewer than two underscores.
WithoutLastTwoTokens(name) ==
    LET U == Underscores(name)
    IN  IF Cardinality(U) < 2 THEN <<>>
        ELSE LET k == CHOOSE i \in U : Cardinality({j \in U : j > i}) = 1
             IN  [i \in 1..(k - 1) |-> IF name[i] = "_" THEN "-" ELSE name[i]]

\* C8: for the archive <name>.zip, series_name is <name>'s underscore-separated
\* tokens without the last two, joined by "-" (empty with at most two tokens), and
\* chapter folder c goes to <output_root>/<series_name>/<series_name>_<c>.pdf,
\* whether or not output_root ends with "/".
C8_SeriesAndPath ==
    ret.done =>
        LET series == WithoutLastTwoTokens(arg.stem)
        IN  /\ ret.series_name = series
            /\ Components(ret.abs_pdf_file) =
                  Components(arg.output_dir)
                      \o (IF series = <<>> THEN <<>> ELSE <<series>>)
                      \o <<series \o <<"_">> \o arg.chapter_folder \o S_pdf>>
            /\ (ret.abs_pdf_file[1] = "/") = (arg.output_dir[1] = "/")

\* foo-bar_c001_c010.zip with chapter c003 went to out/foo-bar/foo-bar_c003.pdf.
C8_FooBarExample ==
    /\ ret.done
    /\ arg.stem = S_foobar /\ arg.chapter_folder = S_c003
    /\ arg.output_dir = S_out \o <<"/">>
    /\ ret.series_name = <<"f", "o", "o", "-", "b", "a", "r">>
    /\ ret.abs_pdf_file = S_out \o <<"/", "f", "o", "o", "-", "b", "a", "r", "/",
                                     "f", "o", "o", "-", "b", "a", "r", "_">>
                                \o S_c003 \o S_pdf

(***************************************************************************)
(* generate_manga                                                          *)
(***************************************************************************)

MaxArchives == 2

Pg(name, kind) == [name |-> name, kind |-> kind]

S_c2 == <<"c", "2">>
S_c10 == <<"c", "1", "0">>

\* What extracting an archive leaves at the top of the scratch directory, in the
\* order os.listdir gives it.
EntryLists ==
    {<<>>,
     <<Dir(S_c10, <<Pg(<<"1">>, "RGB")>>),
       Dir(S_c2, <<Pg(<<"1", "0">>, "RGB"), Pg(<<"2">>, "P")>>)>>,
     <<Dir(S_c2, <<>>)>>,
     <<Dir(S_c10, <<Pg(<<"1">>, "RGB")>>),
       Dir(S_c2, <<Pg(<<"1", "0">>, "bad"), Pg(<<"2">>, "RGB")>>)>>,
     <<File(<<"f">>), Dir(S_c2, <<Pg(<<"a">>, "RGB")>>)>>,
     <<Dir(<<"^2">>, <<>>), Dir(S_c2, <<Pg(<<"a">>, "RGB")>>)>>,
     <<Dir(S_c2, <<Pg(<<"a">>, "P")>>)>>}

Z1 == <<"s", "_", "1", "_", "2">> \o S_zip
Z2 == <<"s", "_", "3", "_", "4">> \o S_zip
Z3 == <<"x">> \o S_zip
NotZip == <<"x", ".", "t", "x", "t">>

\* An entry of manga_dir: state says whether zipfile can open it ("badzip": it
\* cannot) and extract it ("badmember": extractall raises part-way).
Archives ==
    [zip_file : {Z1, Z2, Z3}, state : {"ok"}, entries : EntryLists]
        \cup [zip_file : {Z1}, state : {"badzip", "badmember"}, entries : {<<>>}]
        \cup [zip_file : {NotZip}, state : {"ok"}, entries : {<<>>}]

\* os.listdir(manga_dir): at most n entries of distinct names, in any order.
MangaDirs(n) ==
    UNION {{l \in [1..k -> Archives] :
               \A i, j \in 1..k : l[i].zip_file = l[j].zip_file => i = j} : k \in 0..n}

\* The path of the document of chapter folder c2 of series s.
StaleFile == abs_pdf_file(S_out, Z1, S_c2)

Init ==
    /\ arg \in [output_dir : {S_out}, compress : BOOLEAN]
    /\ ret = [done |-> FALSE]
    /\ manga \in MangaDirs(MaxArchives)
    /\ force_create \in BOOLEAN
    /\ \/ files = <<>> /\ dirs = {}
       \/ /\ files = [q \in {StaleFile} |-> Stale]
          /\ dirs = {pdf_folder(S_out, series_name(Z1))}
    /\ before = files
    /\ temp = {}
    /\ pc = "loop"
    /\ run = 1
    /\ idx = 0
    /\ chapters = <<>>
    /\ chapter_count = 0
    /\ processed_manga_count = 0
    /\ reports = <<>>
    /\ written = {}
    /\ calls = <<>>
    /\ exc = "none"

\* The archive the loop "for zip_file in os.listdir(root_folder)" is at.
zip_entry == manga[idx + 1]
series == series_name(zip_entry.zip_file)
folder == pdf_folder(arg.output_dir, series)

\* The scratch directory tempfile creates for the archive: a fresh name.
temp_dir == <<run, idx + 1>>

\* TemporaryDirectory.__exit__ where the directory is removed only when the block
\* ended without an exception (mkdtemp and a trailing rmtree, no try/finally).
exit_temp_dir_on_success(tmp, d, error) == IF error THEN tmp ELSE tmp \ {d}

\* TemporaryDirectory.__exit__: the directory is removed however the block ended.
exit_temp_dir(tmp, d, error) == tmp \ {d}

\* The skip test that forgets force_create.
skip_ignoring_force(pdf, listing, force) == pdf \in listing

\* manga_pdf_file in os.listdir(pdf_folder) and not force_create
skip(pdf, listing, force) == pdf \in listing /\ ~force

\* An entry of manga_dir that does not end in ".zip" is passed over.
SkipEntry ==
    /\ pc = "loop" /\ idx < Len(manga)
    /\ ~endswith(zip_entry.zip_file, S_zip)
    /\ idx' = idx + 1
    /\ UNCHANGED <<arg, ret, manga, force_create, files, dirs, temp, pc, run, chapters,
                   chapter_count, processed_manga_count, reports, written, calls,
                   before, exc>>

\* The output folder is made, the archive opened, the scratch directory created.
OpenArchive ==
    /\ pc = "loop" /\ idx < Len(manga)
    /\ endswith(zip_entry.zip_file, S_zip)
    /\ dirs' = dirs \cup {folder}
    /\ IF zip_entry.state = "badzip"
       THEN pc' = "raised" /\ exc' = "BadZipFile" /\ temp' = temp
       ELSE pc' = "extract" /\ exc' = exc /\ temp' = temp \cup {temp_dir}
    /\ written' = {}
    /\ UNCHANGED <<arg, ret, manga, force_create, files, run, idx, chapters,
                   chapter_count, processed_manga_count, reports, calls, before>>

\* zip_ref.extractall(temp_dir); chapter_count = 0; the chapter folders are sorted.
Extract ==
    /\ pc = "extract"
    /\ IF zip_entry.state = "badmember"
       THEN /\ pc' = "unwind" /\ exc' = "BadZipFile"
            /\ UNCHANGED <<chapters, chapter_count>>
       ELSE LET listing == zip_entry.entries
                order == sorted([i \in DOMAIN listing |->
                                    [k |-> natural_sort_key(listing[i].name),
                                     v |-> listing[i]]])
            IN  /\ chapter_count' = 0
                /\ IF order.raised
                   THEN pc' = "unwind" /\ exc' = "ValueError" /\ chapters' = chapters
                   ELSE pc' = "chapter" /\ exc' = exc /\ chapters' = order.list
    /\ UNCHANGED <<arg, ret, manga, force_create, files, dirs, temp, run, idx,
                   processed_manga_count, reports, written, calls, before>>

chapter_folder == Head(chapters)
pdf_name == manga_pdf_file(series, chapter_folder.name)
pdf_path == os_path_join(folder, pdf_name)

\* The document of the chapter exists and force_create is off: the chapter is skipped.
SkipChapter ==
    /\ pc = "chapter" /\ chapters # <<>>
    /\ skip(pdf_name, listdir(files, dirs, folder), force_create)
    /\ chapters' = Tail(chapters)
    /\ UNCHANGED <<arg, ret, manga, force_create, files, dirs, temp, pc, run, idx,
                   chapter_count, processed_manga_count, reports, written, calls,
                   before, exc>>

\* create_pdf_from_images is called for the chapter; chapter_count += 1 when it returns.
ProcessChapter ==
    /\ pc = "chapter" /\ chapters # <<>>
    /\ ~skip(pdf_name, listdir(files, dirs, folder), force_create)
    /\ LET r == create_pdf_from_images(files, pdf_path,
                                       os_path_join(S_tmp, chapter_folder.name),
                                       chapter_folder, arg.compress)
       IN  /\ calls' = Append(calls, chapter_folder)
           /\ files' = r.files
           /\ written' = IF r.saved THEN written \cup {pdf_path} ELSE written
           /\ IF r.raised # "none"
              THEN /\ pc' = "unwind" /\ exc' = r.raised
                   /\ UNCHANGED <<chapters, chapter_count>>
              ELSE /\ pc' = pc /\ exc' = exc
                   /\ chapters' = Tail(chapters)
                   /\ chapter_count' = chapter_count + 1
    /\ UNCHANGED <<arg, ret, manga, force_create, dirs, temp, run, idx,
                   processed_manga_count, reports, before>>

\* The with blocks end: the scratch directory is removed, the archive is counted
\* and its "ZIP processing completed" record logged.
FinishArchive ==
    /\ pc = "chapter" /\ chapters = <<>>
    /\ temp' = exit_temp_dir(temp, temp_dir, FALSE)
    /\ processed_manga_count' = processed_manga_count + 1
    /\ reports' = Append(reports, [zip_file |-> zip_entry.zip_file,
                                   chapter_count |-> chapter_count,
                                   saved |-> Cardinality(written),
                                   total |-> Cardinality(listdir(files, dirs, folder))])
    /\ idx' = idx + 1
    /\ pc' = "loop"
    /\ UNCHANGED <<arg, ret, manga, force_create, files, dirs, run, chapters,
                   chapter_count, written, calls, before, exc>>

\* An exception leaves the with blocks: the scratch directory is removed and the
\* exception propagates out of generate_manga.
Unwind ==
    /\ pc = "unwind"
    /\ temp' = exit_temp_dir(temp, temp_dir, TRUE)
    /\ pc' = "raised"
    /\ UNCHANGED <<arg, ret, manga, force_create, files, dirs, run, idx, chapters,
                   chapter_count, processed_manga_count, reports, written, calls,
                   before, exc>>

\* The loop is over: generate_manga returns 0.
Return ==
    /\ pc = "loop" /\ idx = Len(manga)
    /\ pc' = "returned"
    /\ ret' = [done |-> TRUE]
    /\ UNCHANGED <<arg, manga, force_create, files, dirs, temp, run, idx, chapters,
                   chapter_count, processed_manga_count, reports, written, calls,
                   before, exc>>

\* generate_manga is run once more with the same arguments on the same directories.
Rerun ==
    /\ pc = "returned" /\ run = 1
    /\ run' = 2
    /\ before' = files
    /\ pc' = "loop"
    /\ idx' = 0
    /\ ret' = [done |-> FALSE]
    /\ chapters' = <<>>
    /\ chapter_count' = 0
    /\ processed_manga_count' = 0
    /\ reports' = <<>>
    /\ written' = {}
    /\ calls' = <<>>
    /\ UNCHANGED <<arg, manga, force_create, files, dirs, temp, exc>>

Next ==
    \/ SkipEntry
    \/ OpenArchive
    \/ Extract
    \/ SkipChapter
    \/ ProcessChapter
    \/ FinishArchive
    \/ Unwind
    \/ Return
    \/ Rerun

Spec == Init /\ [][Next]_vars

(***************************************************************************)
(* Properties of generate_manga                                            *)
(***************************************************************************)

\* C1: a second run with force_create off on unchanged input, after a first run
\* that returned, leaves every output file and its content as the first run left
\* it, and every archive reports 0 generated documents.
C1_SecondRunIdempotent ==
    (run = 2 /\ pc = "returned" /\ ~force_create)
    => /\ files = before
       /\ \A i \in DOMAIN reports : reports[i].chapter_count = 0

\* The part of C1 about the output tree alone.
SecondRunLeavesFiles ==
    (run = 2 /\ pc = "returned" /\ ~force_create) => files = before

\* The chapter folders (directories) of the archives of manga_dir, each with the
\* path of its document.
Targets ==
    UNION {{[path |-> abs_pdf_file(arg.output_dir, manga[i].zip_file,
                                   manga[i].entries[j].name),
             entry |-> manga[i].entries[j]] :
               j \in {j \in DOMAIN manga[i].entries : manga[i].entries[j].kind = "dir"}} :
           i \in {i \in DOMAIN manga : endswith(manga[i].zip_file, S_zip)}}

\* C2 as stated: with force_create on, a stale document at a chapter's path never
\* survives the run, whatever pages the chapter has now.
C2_ForceNeverLeavesStale ==
    (force_create /\ run = 1 /\ pc = "returned")
    => \A t \in Targets :
           (t.path \in DOMAIN before /\ before[t.path] = Stale) => files[t.path] # Stale

\* C2 amended: with force_create on and a document at the chapter's path, processing
\* a chapter that has pages (all decodable) rewrites the document from those pages
\* in natural order; processing a chapter with no pages leaves the output tree, and
\* so the old document, as it was.
C2_ForceRewritesNonEmpty ==
    [][(/\ pc = "chapter" /\ chapters # <<>>
        /\ force_create
        /\ chapter_folder.kind = "dir"
        /\ pdf_path \in DOMAIN files
        /\ AllDecode(chapter_folder.pages)
        /\ ~SortedBareNames(chapter_folder.pages).raised)
       => LET q == pdf_path
              pages == chapter_folder.pages
          IN  IF pages # <<>>
              THEN /\ q \in DOMAIN files'
                   /\ Sources(files'[q]) = SortedBareNames(pages).list
                   /\ files'[q] # Stale
              ELSE files' = files]_vars

\* A forced run rewrote the stale document of chapter c2 of series s.
C2_ForceRewroteStale ==
    /\ force_create /\ run = 1
    /\ StaleFile \in DOMAIN before /\ before[StaleFile] = Stale
    /\ StaleFile \in written
    /\ files[StaleFile] # Stale

\* C3: at most one scratch directory exists at any time; the one of an archive is
\* gone when the archive's processing has ended, normally or by an exception, and
\* so before the next archive's is created and once generate_manga has returned or
\* raised.
C3_ScratchDiscipline ==
    /\ Cardinality(temp) <= 1
    /\ pc \in {"loop", "returned", "raised"} => temp = {}
    /\ pc \in {"extract", "chapter", "unwind"} => temp = {temp_dir}

\* An exception ended the second archive's processing, and no scratch directory is left.
C3_CleanedAfterError ==
    /\ pc = "raised"
    /\ exc \in {"BadZipFile", "UnidentifiedImageError"}
    /\ processed_manga_count = 1
    /\ idx = 1
    /\ temp = {}

\* C7: when a chapter that is assembled has an entry that is no image, the error
\* leaves create_pdf_from_images and generate_manga: the output tree is as it was
\* before the chapter (nothing is written at its path, earlier documents stay), and
\* from then on nothing is processed or written and the run ends raised.
C7_FailFast ==
    [][/\ (/\ pc = "chapter" /\ chapters # <<>>
           /\ ~skip(pdf_name, listdir(files, dirs, folder), force_create)
           /\ chapter_folder.kind = "dir"
           /\ ~AllDecode(chapter_folder.pages)
           /\ ~images(os_path_join(S_tmp, chapter_folder.name),
                      chapter_folder.pages).raised)
          => /\ pc' = "unwind"
             /\ exc' = "UnidentifiedImageError"
             /\ files' = files
             /\ chapters' = chapters
       /\ pc \in {"unwind", "raised"}
          => /\ pc' = "raised"
             /\ UNCHANGED <<files, idx, chapters, calls, reports, exc,
                            chapter_count, processed_manga_count, run>>]_vars

\* A bad page ended the run in the second archive: the first archive's document is
\* in place, and the chapter after the bad one was not visited.
C7_RaisedOnBadPage ==
    /\ pc = "raised"
    /\ exc = "UnidentifiedImageError"
    /\ processed_manga_count = 1
    /\ files # before
    /\ Len(chapters) = 2
    /\ Len(calls) >= 2

\* C9: the count an archive reports (chapter_count) is the number of documents
\* saved for it in this run, skipped chapters and chapters without a written file
\* not counted, and processed_manga_count is the number of archives completed.
C9_CountsAreDocuments ==
    /\ \A i \in DOMAIN reports : reports[i].chapter_count = reports[i].saved
    /\ processed_manga_count = Len(reports)

\* The part of C9 about the archives completed.
ProcessedCountIsArchives == processed_manga_count = Len(reports)

\* C10: only directories at the top of the scratch directory are chapters, visited
\* in natural_sort_key order; a plain file there is never handed to
\* create_pdf_from_images, yields no document and causes no error.
C10_OnlyDirectoriesAreChapters ==
    /\ \A i \in DOMAIN calls : calls[i].kind = "dir"
    /\ exc # "NotADirectoryError"
    /\ \A i, j \in DOMAIN chapters :
           i < j => ~KeyLess(natural_sort_key(chapters[j].name).key,
                             natural_sort_key(chapters[i].name).key)

\* The chapters of an archive are visited in natural_sort_key order.
ChaptersInNaturalOrder ==
    \A i, j \in DOMAIN chapters :
        i < j => ~KeyLess(natural_sort_key(chapters[j].name).key,
                          natural_sort_key(chapters[i].name).key)

====
